---- MODULE Spec2Model ----
(***************************************************************************)
(* Model of DeployLabelController                                          *)
(* (src/app/frontend/deploy/deploylabel_controller.js): the list of label  *)
(* rows of the deploy form, the auto-append on check, the five key         *)
(* validity flags, isRemovable and deleteLabel.                            *)
(*                                                                         *)
(* Strings are sequences of one-character strings, so that indexOf,        *)
(* substring, length and the regular expressions are computed character by *)
(* character.  DeployLabel objects live in `heap`; an object's identity is *)
(* its index in `heap`, and `labels` holds identities, as the JavaScript   *)
(* array holds references.  One controller instance exists per row; the    *)
(* parameter `l` of an action is the `this.label` of the instance called.  *)
(***************************************************************************)
EXTENDS Integers, Sequences, FiniteSets

\* ------------------------------------------------------------------ bounds
\* Most DeployLabel objects ever constructed (initial ones and appended ones).
MaxLabels == 2
\* Longest key enumerated exhaustively over Chars.
MaxKeyLen == 3
\* Longest initial list (an initial list may hold one object twice).
MaxInitLen == 2

\* --------------------------------------------------------------- characters
\* One representative per class the three regular expressions tell apart:
\* lowercase alphanumeric, uppercase letter, "-", "_", ".", "/", and a line
\* terminator (which "." of a JavaScript RegExp does not match).
Chars == {"a", "A", "-", "_", ".", "/", "\n"}

\* Characters "." of a RegExp does not match (U+2028 and U+2029 are two more;
\* of them all, "\n" is in Chars).
LineTerminators == {"\n", "\r"}
Digits == {"0", "1", "2", "3", "4", "5", "6", "7", "8", "9"}
LowerAlpha ==
  {"a", "b", "c", "d", "e", "f", "g", "h", "i", "j", "k", "l", "m", "n", "o", "p", "q", "r", "s", "t", "u", "v", "w", "x", "y", "z"}
UpperAlpha ==
  {"A", "B", "C", "D", "E", "F", "G", "H", "I", "J", "K", "L", "M", "N", "O", "P", "Q", "R", "S", "T", "U", "V", "W", "X", "Y", "Z"}
\* [a-z0-9]
LowerAlnum == LowerAlpha \cup Digits
\* [A-Za-z0-9]
Alnum == LowerAlnum \cup UpperAlpha

\* [-a-z0-9]
PrefixInner == LowerAlnum \cup {"-"}
\* [-A-Za-z0-9_.]
NameInner == Alnum \cup {"-", "_", "."}

\* ------------------------------------------------------------------ strings
EmptyString == << >>

\* String.prototype.indexOf(c): 0-based position of the first c, or -1.
IndexOf(s, c) ==
  IF \E i \in 1..Len(s) : s[i] = c
  THEN (CHOOSE i \in 1..Len(s) : s[i] = c /\ \A j \in 1..(i - 1) : s[j] # c) - 1
  ELSE -1

\* String.prototype.substring(start, end), 0-based, end exclusive.
Substring(s, start, end) == SubSeq(s, start + 1, end)

\* String.prototype.substring(start): to the end of the string.
SubstringFrom(s, start) == SubSeq(s, start + 1, Len(s))

\* n copies of the character c.
Repeat(c, n) == [i \in 1..n |-> c]

\* All strings over Chars of length at most n.
StringsUpTo(n) == UNION {[1..m -> Chars] : m \in 0..n}

\* -------------------------------------------------------- regular expressions
\* /^(.*\/.*)$/ : some "/" with only non-line-terminators before and after it.
PrefixPattern(s) ==
  \E i \in 1..Len(s) :
    /\ s[i] = "/"
    /\ \A j \in 1..(i - 1) : s[j] \notin LineTerminators
    /\ \A j \in (i + 1)..Len(s) : s[j] \notin LineTerminators

\* [a-z0-9]([-a-z0-9]*[a-z0-9])? matched against s[b..e], b <= e.
PrefixSegment(s, b, e) ==
  /\ s[b] \in LowerAlnum
  /\ \/ e = b
     \/ /\ \A i \in (b + 1)..(e - 1) : s[i] \in PrefixInner
        /\ s[e] \in LowerAlnum

\* One segment starting at position b, then (\.segment)* up to the end.
RECURSIVE PrefixSegments(_, _)
PrefixSegments(s, b) ==
  \E e \in b..Len(s) :
    /\ PrefixSegment(s, b, e)
    /\ \/ e = Len(s)
       \/ s[e + 1] = "." /\ PrefixSegments(s, e + 2)

\* /^[a-z0-9]([-a-z0-9]*[a-z0-9])?(\.[a-z0-9]([-a-z0-9]*[a-z0-9])?)*$/
labelKeyPrefixPattern(s) == PrefixSegments(s, 1)

\* The name pattern with the whole expression optional:
\* /^([A-Za-z0-9]([-A-Za-z0-9_.]*[A-Za-z0-9])?)?$/
labelKeyNamePatternOrEmpty(s) ==
  \/ Len(s) = 0
  \/ /\ Len(s) >= 1
     /\ s[1] \in Alnum
     /\ \A i \in 2..(Len(s) - 1) : s[i] \in NameInner
     /\ s[Len(s)] \in Alnum

\* /^([A-Za-z0-9][-A-Za-z0-9_.]*)?[A-Za-z0-9]$/ : the optional group is either
\* absent (one alphanumeric) or present (first, inner*, last).
labelKeyNamePattern(s) ==
  \/ Len(s) = 1 /\ s[1] \in Alnum
  \/ /\ Len(s) >= 2
     /\ s[1] \in Alnum
     /\ \A i \in 2..(Len(s) - 1) : s[i] \in NameInner
     /\ s[Len(s)] \in Alnum

\* ------------------------------------------------------------------- state
VARIABLES
  heap,      \* the DeployLabel objects constructed so far; identity = index
  labels,    \* this.labels: the shared list of rows, a sequence of identities
  labelForm, \* the form handle last passed to check: its row and its flags
  ret        \* outcome of the last controller call

vars == <<heap, labels, labelForm, ret>>

\* new DeployLabel(): blank key, blank value, editable.
NewDeployLabel == [key |-> EmptyString, value |-> EmptyString, editable |-> TRUE]

\* label.value(): the accessor of the row's value.
Value(label) == label.value

\* The flags of a form field on which $setValidity was never called.
NoValidity == [n \in {} |-> TRUE]

\* elem.$setValidity(name, isValid)
SetValidity(elem, name, isValid) ==
  [n \in (DOMAIN elem) \cup {name} |-> IF n = name THEN isValid ELSE elem[n]]

\* undefined, as the array element read past the end of an empty array.
Undefined == 0

Ids == 1..Len(heap)

\* --------------------------------------------------------------- controller
\* isFilled_ with || in place of &&.
IsFilledEither(label) == Len(label.key) # 0 \/ Len(Value(label)) # 0

\* isFilled_(label); reading .key of undefined throws.
isFilled_(label) == Len(label.key) # 0 /\ Len(Value(label)) # 0

\* addNewLabel_(): this.labels.push(new DeployLabel())
addNewLabel_(st) ==
  [heap |-> Append(st.heap, NewDeployLabel),
   labels |-> Append(st.labels, Len(st.heap) + 1)]

\* addIfNeeded_() on a non-empty list.
addIfNeeded_(st) ==
  LET lastLabel == st.heap[st.labels[Len(st.labels)]]
  IN  IF isFilled_(lastLabel) THEN addNewLabel_(st) ELSE st

\* isKeyDuplicated_ with "duplications > 0".
IsKeyDuplicatedOnce(st, l) ==
  LET key == st.heap[l].key
  IN  \E i \in 1..Len(st.labels) :
        Len(key) # 0 /\ st.heap[st.labels[i]].key = key

\* isKeyDuplicated_() of the controller whose this.label is l.
isKeyDuplicated_(st, l) ==
  LET key == st.heap[l].key
      duplications ==
        Cardinality({i \in 1..Len(st.labels) :
                       Len(key) # 0 /\ st.heap[st.labels[i]].key = key})
  IN  duplications > 1

\* "valid-pattern", the stand-in prefix of a key that is not prefixed.
ValidPattern == <<"v", "a", "l", "i", "d", "-", "p", "a", "t", "t", "e", "r", "n">>

MaxPrefixLength == 253
MaxNameLength == 63

matchesKeyPrefixPattern_(key, isPrefixed, slashPosition) ==
  LET labelPrefix == IF isPrefixed THEN Substring(key, 0, slashPosition)
                                   ELSE ValidPattern
  IN  labelKeyPrefixPattern(labelPrefix)

matchesKeyNamePattern_(key, isPrefixed, slashPosition) ==
  LET labelName == IF isPrefixed THEN SubstringFrom(key, slashPosition + 1) ELSE key
  IN  labelKeyNamePattern(labelName)

matchesKeyPrefixLength_(key, isPrefixed, slashPosition) ==
  LET labelPrefix == IF isPrefixed THEN Substring(key, 0, slashPosition)
                                   ELSE EmptyString
  IN  Len(labelPrefix) <= MaxPrefixLength

matchesKeyNameLength_(key, isPrefixed, slashPosition) ==
  LET labelName == IF isPrefixed THEN SubstringFrom(key, slashPosition + 1) ELSE key
  IN  Len(labelName) <= MaxNameLength

\* The body of validateKey_ when labelForm is defined: the flags of
\* labelForm.key after the five $setValidity calls.
ValidateKey_(elem, st, l) ==
  LET key == st.heap[l].key
      isPrefixed == PrefixPattern(key)
      slashPosition == IF isPrefixed THEN IndexOf(key, "/") ELSE -1
      isUnique == ~isKeyDuplicated_(st, l)
      isKeyPrefixPatternOk == matchesKeyPrefixPattern_(key, isPrefixed, slashPosition)
      isKeyNamePatternOk == matchesKeyNamePattern_(key, isPrefixed, slashPosition)
      isKeyPrefixLengthOk == matchesKeyPrefixLength_(key, isPrefixed, slashPosition)
      isKeyNameLengthOk == matchesKeyNameLength_(key, isPrefixed, slashPosition)
      e1 == SetValidity(elem, "unique", isUnique)
      e2 == SetValidity(e1, "prefixPattern", isKeyPrefixPatternOk)
      e3 == SetValidity(e2, "namePattern", isKeyNamePatternOk)
      e4 == SetValidity(e3, "prefixLength", isKeyPrefixLengthOk)
  IN  SetValidity(e4, "nameLength", isKeyNameLengthOk)

\* angular.isDefined(labelForm)
IsDefined(hasForm) == hasForm

\* The flags the handle of row l holds before the call: those written last if
\* it is the handle passed last, none otherwise.
ElemOf(l) == IF labelForm.row = l THEN labelForm.flags ELSE NoValidity

\* validateKey_ without the angular.isDefined guard.
validateKeyUnguarded(hasForm, st, l) ==
  [row |-> l, flags |-> ValidateKey_(ElemOf(l), st, l)]

\* validateKey_(labelForm): the handle after the call.
validateKey_(hasForm, st, l) ==
  IF IsDefined(hasForm)
  THEN [row |-> l, flags |-> ValidateKey_(ElemOf(l), st, l)]
  ELSE labelForm

\* check(labelForm) on the controller of row l.  On an empty list
\* addIfNeeded_ reads .key of undefined: a TypeError, before any change.
\* A call that would construct more than MaxLabels objects is not taken.
check(l, hasForm) ==
  /\ l \in Ids
  /\ IF Len(labels) = 0
     THEN /\ ret' = "TypeError"
          /\ UNCHANGED <<heap, labels, labelForm>>
     ELSE LET st == addIfNeeded_([heap |-> heap, labels |-> labels])
          IN  /\ Len(st.heap) <= MaxLabels
              /\ heap' = st.heap
              /\ labels' = st.labels
              /\ labelForm' = validateKey_(hasForm, st, l)
              /\ ret' = "undefined"

\* Boolean result as the string the caller sees.
Bool(b) == IF b THEN "true" ELSE "false"

\* isRemovable without the comparison with the last element.
isRemovableEditable(l) == heap[l].editable

\* isRemovable comparing the rows' contents instead of their identity.
isRemovableByContent(l) ==
  heap[l].editable /\ (Len(labels) = 0 \/ heap[l] # heap[labels[Len(labels)]])

isRemovable(l) ==
  LET lastElement == IF Len(labels) = 0 THEN Undefined ELSE labels[Len(labels)]
  IN  heap[l].editable /\ l # lastElement

IsRemovable(l) ==
  /\ l \in Ids
  /\ ret' = Bool(isRemovable(l))
  /\ UNCHANGED <<heap, labels, labelForm>>

\* Array.prototype.indexOf by identity: 0-based first position, or -1.
IndexOfLabel(list, l) ==
  IF \E i \in 1..Len(list) : list[i] = l
  THEN (CHOOSE i \in 1..Len(list) : list[i] = l /\ \A j \in 1..(i - 1) : list[j] # l) - 1
  ELSE -1

\* Array.prototype.splice(start, deleteCount), 0-based start.
Splice(list, start, deleteCount) ==
  SubSeq(list, 1, start) \o SubSeq(list, start + deleteCount + 1, Len(list))

\* deleteLabel with splice(rowIdx): everything from rowIdx on is removed.
deleteLabelToEnd(list, l) ==
  LET rowIdx == IndexOfLabel(list, l)
  IN  IF rowIdx > -1 THEN Splice(list, rowIdx, Len(list) - rowIdx) ELSE list

deleteLabel(list, l) ==
  LET rowIdx == IndexOfLabel(list, l)
  IN  IF rowIdx > -1 THEN Splice(list, rowIdx, 1) ELSE list

DeleteLabel(l) ==
  /\ l \in Ids
  /\ labels' = deleteLabel(labels, l)
  /\ ret' = "undefined"
  /\ UNCHANGED <<heap, labelForm>>

\* ------------------------------------------------------------- environment
\* Keys and values the user types into a row in the list specification.
EditKeys == {EmptyString, <<"a">>}
Values == {EmptyString, <<"v">>}

\* The key input's binding writes label.key.
EditKey(l, k) ==
  /\ l \in Ids
  /\ heap[l].key # k
  /\ heap' = [heap EXCEPT ![l].key = k]
  /\ UNCHANGED <<labels, labelForm, ret>>

\* The value input's binding writes the value.
EditValue(l, v) ==
  /\ l \in Ids
  /\ heap[l].value # v
  /\ heap' = [heap EXCEPT ![l].value = v]
  /\ UNCHANGED <<labels, labelForm, ret>>

\* Initial lists, as the scope hands them to the controller: n rows over k
\* objects, every object in the list, objects numbered in the order of their
\* first row.  An array may hold the same reference twice.
InitLists ==
  {list \in UNION {[1..n -> 1..n] : n \in 1..MaxInitLen} :
     \A i \in 1..Len(list) :
       list[i] <= 1 + Cardinality({list[j] : j \in 1..(i - 1)})}

NumObjects(list) == Cardinality({list[i] : i \in 1..Len(list)})

NoForm == [row |-> Undefined, flags |-> NoValidity]

Init ==
  /\ labels \in InitLists
  /\ heap \in [1..NumObjects(labels) ->
                 [key : EditKeys, value : Values, editable : BOOLEAN]]
  /\ labelForm = NoForm
  /\ ret = "undefined"

Next ==
  \/ \E l \in Ids, hasForm \in BOOLEAN : check(l, hasForm)
  \/ \E l \in Ids : IsRemovable(l)
  \/ \E l \in Ids : DeleteLabel(l)
  \/ \E l \in Ids, k \in EditKeys : EditKey(l, k)
  \/ \E l \in Ids, v \in Values : EditValue(l, v)

Spec == Init /\ [][Next]_vars

\* ----------------------------------------------------- key specification
\* The same controller on one row whose key ranges over every string over
\* Chars up to MaxKeyLen, structured samples, and keys around the two length
\* limits; the key is not edited afterwards.
SamplePrefixes ==
  {<<"a", ".", "a">>, <<"a", "-", "a">>, <<"a", ".", ".", "a">>,
   <<"a", ".", "-", "a">>, <<"a", "-", ".", "a">>, <<"a", ".", "a", ".", "a">>,
   <<"a", "-", "-", "a", ".", "a">>, <<"a", ".", "A">>, <<"a", "_", "a">>,
   <<"m", "y", ".", "d", "o", "m", "a", "i", "n", ".", "c", "o", "m">>,
   <<"B", "A", "D", "_", "P", "R", "E", "F", "I", "X">>}

SampleNames ==
  {EmptyString, <<"n", "a", "m", "e">>, <<"n", "a", "m", "e", "$">>,
   <<"a", "_", ".", "-", "A">>, <<"a", "/", "a">>, <<"a", "\n">>}

SampleKeys ==
  SampleNames \cup {p \o <<"/">> \o n : p \in SamplePrefixes, n \in SampleNames}

PrefixLens == {0, MaxPrefixLength - 1, MaxPrefixLength, MaxPrefixLength + 1}
NameLens == {0, MaxNameLength - 1, MaxNameLength, MaxNameLength + 1}
Separators == {EmptyString, <<"/">>, <<"/", "\n">>, <<"\n", "/">>}

LongKeys ==
  {Repeat("a", p) \o m \o Repeat("a", n) :
     p \in PrefixLens, m \in Separators, n \in NameLens}

AllKeys == StringsUpTo(MaxKeyLen) \cup SampleKeys \cup LongKeys

InitKeys ==
  /\ labels = <<1>>
  /\ heap \in [1..1 -> [key : AllKeys, value : Values, editable : {TRUE}]]
  /\ labelForm = NoForm
  /\ ret = "undefined"

NextKeys ==
  \/ \E l \in Ids, hasForm \in BOOLEAN : check(l, hasForm)
  \/ \E l \in Ids : IsRemovable(l)
  \/ \E l \in Ids : DeleteLabel(l)

SpecKeys == InitKeys /\ [][NextKeys]_vars

\* ------------------------------------------------------------------ claims
Range(list) == {list[i] : i \in 1..Len(list)}
LastOf(list) == list[Len(list)]

HasSlash(key) == \E i \in 1..Len(key) : key[i] = "/"
FirstSlash(key) ==
  CHOOSE i \in 1..Len(key) : key[i] = "/" /\ \A j \in 1..(i - 1) : key[j] # "/"
PrefixPart(key) ==
  IF HasSlash(key) THEN SubSeq(key, 1, FirstSlash(key) - 1) ELSE EmptyString
NamePart(key) ==
  IF HasSlash(key) THEN SubSeq(key, FirstSlash(key) + 1, Len(key)) ELSE key
HasLineTerminator(key) == \E i \in 1..Len(key) : key[i] \in LineTerminators

\* An alphanumeric, optionally followed by alphanumerics, "-", "_", ".", and
\* ending in an alphanumeric.
NameShape(n) ==
  /\ Len(n) >= 1
  /\ n[1] \in Alnum
  /\ n[Len(n)] \in Alnum
  /\ \A i \in 1..Len(n) : n[i] \in Alnum \cup {"-", "_", "."}

\* A non-empty sequence of dot-separated segments, each starting and ending
\* with a lowercase alphanumeric and holding only lowercase alphanumerics and
\* hyphens.
DnsShape(p) ==
  /\ Len(p) >= 1
  /\ \A i \in 1..Len(p) :
       /\ p[i] \in LowerAlnum \cup {"-", "."}
       /\ (i = 1 \/ p[i - 1] = ".") => p[i] \in LowerAlnum
       /\ (i = Len(p) \/ p[i + 1] = ".") => p[i] \in LowerAlnum

\* The key of the row whose handle was passed to check last.
CheckedKey == heap[labelForm.row].key
Checked == labelForm.row # Undefined

C4_UniqueFlag ==
  [][\A l \in Ids :
       (check(l, TRUE) /\ Len(labels) > 0) =>
         /\ labelForm'.row = l
         /\ labelForm'.flags["unique"] <=>
              ~(/\ heap[l].key # EmptyString
                /\ Cardinality({i \in 1..Len(labels') :
                                  heap'[labels'[i]].key = heap[l].key}) >= 2)]_vars

\* C4 witness: two different rows of the list hold the same non-empty key
\* and the handle of one of them has unique = false.
C4_Witness ==
  /\ Checked
  /\ labelForm.flags["unique"] = FALSE
  /\ CheckedKey # EmptyString
  /\ \E i, j \in 1..Len(labels) :
       /\ labels[i] # labels[j]
       /\ labels[i] = labelForm.row
       /\ heap[labels[j]].key = CheckedKey

\* C5 (as claimed): after check with a handle, prefixPattern is true for a
\* key with no "/", and for a key with a "/" it is true iff the part before
\* the first "/" has the DNS shape.
C5_PrefixPatternFlag ==
  Checked =>
    (labelForm.flags["prefixPattern"] <=>
       (~HasSlash(CheckedKey) \/ DnsShape(PrefixPart(CheckedKey))))

\* C6 (as claimed): after check with a handle, prefixLength is true iff the
\* part before the first "/" (empty without a "/") has at most 253
\* characters, and nameLength is true iff the name part has at most 63.
C6_LengthFlags ==
  Checked =>
    /\ labelForm.flags["prefixLength"] <=> (Len(PrefixPart(CheckedKey)) <= 253)
    /\ labelForm.flags["nameLength"] <=> (Len(NamePart(CheckedKey)) <= 63)

\* C7: isRemovable returns true iff the current entry is editable and is not,
\* by identity, the last element of the list, and it changes neither the
\* list nor its entries.
C7_IsRemovable ==
  [][\A l \in Ids :
       IsRemovable(l) =>
         /\ ret' = "true" <=>
              (heap[l].editable /\ ~(Len(labels) > 0 /\ labels[Len(labels)] = l))
         /\ ret' \in {"true", "false"}
         /\ labels' = labels
         /\ heap' = heap]_vars

\* C7 witness: isRemovable has returned true while the list holds two rows
\* with equal contents and different identities.
C7_Witness ==
  /\ ret = "true"
  /\ \E i, j \in 1..Len(labels) :
       labels[i] # labels[j] /\ heap[labels[i]] = heap[labels[j]]

\* The list without the first occurrence of l.
WithoutFirst(list, l) ==
  IF l \notin Range(list)
  THEN list
  ELSE LET first == CHOOSE i \in 1..Len(list) :
                      list[i] = l /\ \A j \in 1..(i - 1) : list[j] # l
       IN  [i \in 1..(Len(list) - 1) |-> IF i < first THEN list[i] ELSE list[i + 1]]

AppendExpected ==
  IF Len(labels) > 0 /\ heap[LastOf(labels)].key # EmptyString
     /\ heap[LastOf(labels)].value # EmptyString
  THEN /\ labels' = Append(labels, Len(heap) + 1)
       /\ heap' = Append(heap, [key |-> EmptyString, value |-> EmptyString,
                                editable |-> TRUE])
  ELSE labels' = labels /\ heap' = heap

WithoutRow(list, i) ==
  [j \in 1..(Len(list) - 1) |-> IF j < i THEN list[j] ELSE list[j + 1]]

\* C10 (as claimed): a check call on a list with a blank row (empty key and
\* empty value) before the last row removes such a row from the list (and
\* may append a new blank row at the end).
C10_CheckRemovesBlankMiddle ==
  [][\A l \in Ids, hasForm \in BOOLEAN :
       (/\ check(l, hasForm)
        /\ \E i \in 1..(Len(labels) - 1) :
             /\ heap[labels[i]].key = EmptyString
             /\ heap[labels[i]].value = EmptyString)
       => \E i \in 1..(Len(labels) - 1) :
            /\ heap[labels[i]].key = EmptyString
            /\ heap[labels[i]].value = EmptyString
            /\ \/ labels' = WithoutRow(labels, i)
               \/ /\ Len(labels') = Len(labels)
                  /\ SubSeq(labels', 1, Len(labels) - 1) = WithoutRow(labels, i)
                  /\ LastOf(labels') \notin Ids]_vars

====
